---- MODULE Spec2Model ----
(***************************************************************************)
(* A model of the netage profile of ReSpec: the style plugin (both copies  *)
(* of it in the repository), the informative-section plugin, the defaults  *)
(* plugin, the profile entry script and the build CLI.                     *)
(*                                                                         *)
(* Every behaviour follows one component, chosen in Init (component); the  *)
(* variables of the other components keep their initial values.            *)
(***************************************************************************)
EXTENDS Integers, Sequences, FiniteSets, TLC

VARIABLES
  component,   \* which module of the repository this behaviour exercises
  conf,        \* the configuration object handed to run(conf)
  userConf,    \* the configuration as the user wrote it (never changes)
  \* the style plugin
  variant,     \* "src" = src/netage/style.js, "js" = the older copy of the plugin
  st,          \* "unloaded" -> "loaded" -> "ran"
  head,        \* document.head's children
  body,        \* document.body's children (only what the plugin appends)
  published,   \* pub() calls made so far, in order
  subs,        \* the hub's subscriptions: records [ev, fn, once, url]
  linked,      \* the URLs linkCSS was called with, in order
  thrown,      \* "" or the name of the exception run(conf) threw
  appended,    \* number of elements other plugins appended to the head after run
  saved,       \* "beforesave" was published and its subscribers have run
  exportHead,  \* head of the exported document after the last "beforesave"
  navigated,   \* the fixup script's load listener re-navigated to the fragment
  \* the informative plugin
  doc,         \* the document's tags in document order
  infDone,     \* run() has been called
  \* the defaults plugin
  defDone,     \* run(conf) has been called
  \* the profile entry script
  readyState,     \* document.readyState
  ppc,            \* where the entry script is
  shown,          \* ui.show() was called
  runAllState,    \* runner.runAll's promise: "idle", "running", "resolved", "rejected"
  nextPlugin,     \* index of the plugin runAll runs next
  respecIsReady,  \* document.respecIsReady: "pending", "resolved", "rejected"
  logged,         \* console.error calls of the catch block
  enabled,        \* ui.enable() calls
  \* the build CLI
  bpc,            \* where the CLI's run() is
  parsedArgs,     \* the parsed command line
  exited,         \* the process has ended
  exitCode,       \* its exit code, once exited
  reported,       \* console.error printed an error
  usageShown,     \* the usage guide was printed
  bannerWritten,  \* the output script was rewritten with the version banner
  workerCopied,   \* respec-worker.js was copied to the output directory
  failedAt        \* the step of Builder.build that threw, "" for none

confVars == <<conf, userConf>>

styleVars == <<variant, st, head, body, published, subs, linked,
               thrown, appended, saved, exportHead, navigated>>

infVars == <<doc, infDone>>

profileVars == <<readyState, ppc, shown, runAllState, nextPlugin, respecIsReady,
                 logged, enabled>>

builderVars == <<bpc, parsedArgs, exited, exitCode, reported, usageShown,
                 bannerWritten, workerCopied, failedAt>>

vars == <<component, confVars, styleVars, infVars, defDone, profileVars, builderVars>>

----------------------------------------------------------------------------
(* Strings whose letter case matters are sequences of one-character strings. *)

UpperChars == <<"A","B","C","D","E","F","G","I","L","N","O","S","T","U","V">>
LowerChars == <<"a","b","c","d","e","f","g","i","l","n","o","s","t","u","v">>

\* String.prototype.toUpperCase on one character
UpperOf(c) ==
  IF \E k \in DOMAIN LowerChars : LowerChars[k] = c
  THEN UpperChars[CHOOSE k \in DOMAIN LowerChars : LowerChars[k] = c]
  ELSE c

LowerOf(c) ==
  IF \E k \in DOMAIN UpperChars : UpperChars[k] = c
  THEN LowerChars[CHOOSE k \in DOMAIN UpperChars : UpperChars[k] = c]
  ELSE c

toUpperCase(s) == [i \in 1..Len(s) |-> UpperOf(s[i])]

NETAGE_BASIC == <<"N","E","T","A","G","E","-","B","A","S","I","C">>
NETAGE_CV    == <<"N","E","T","A","G","E","-","C","V">>
NETAGE_LD    == <<"N","E","T","A","G","E","-","L","D">>
NETAGE_FINAL == <<"N","E","T","A","G","E","-","F","I","N","A","L">>
base         == <<"b","a","s","e">>
unofficial   == <<"u","n","o","f","f","i","c","i","a","l">>

\* Input statuses: a code with some of its letters lower-cased, the others upper-cased.
CaseStyles == {"upper", "lower", "firstLower", "alternating"}

Recase(code, style) ==
  [i \in 1..Len(code) |->
     IF \/ style = "lower"
        \/ style = "firstLower" /\ i = 1
        \/ style = "alternating" /\ i % 2 = 0
     THEN LowerOf(code[i]) ELSE UpperOf(code[i])]

StatusCodes == {NETAGE_BASIC, NETAGE_CV, NETAGE_LD, NETAGE_FINAL,
                base, unofficial, <<"E","D">>, <<"N","E","T","A","G","E","-","C">>}

\* "" is the empty string: present but falsy.
StatusInputs == {Recase(c, s) : c \in StatusCodes, s \in CaseStyles} \cup {<<>>}

----------------------------------------------------------------------------
(* Configuration objects are functions from option names to values; an     *)
(* absent option is a name outside the domain.                             *)

Has(c, k) == k \in DOMAIN c

Put(c, k, v) == [x \in DOMAIN c \cup {k} |-> IF x = k THEN v ELSE c[x]]

\* {...a, ...b}
Spread(a, b) == [x \in DOMAIN a \cup DOMAIN b |-> IF x \in DOMAIN b THEN b[x] ELSE a[x]]

EmptyObject == [x \in {} |-> TRUE]

\* !conf.specStatus is false: the option is there and is not ""
HasStatus(c) == Has(c, "specStatus") /\ c["specStatus"] # <<>>

\* !conf.noToc is false
NoToc(c) == Has(c, "noToc") /\ c["noToc"]

----------------------------------------------------------------------------
(* The document head: a sequence of elements.                              *)

Elem(tag, key, href, cls) == [tag |-> tag, key |-> key, href |-> href, cls |-> cls]

IsViewport(e) == e.tag = "meta" /\ e.key = "viewport"

createMetaViewport == Elem("meta", "viewport", "", "")

createBaseStyle ==
  Elem("link", "stylesheet", "https://www.w3.org/StyleSheets/TR/2016/base.css", "removeOnSave")

createBaseStyleJs ==
  Elem("link", "stylesheet", "https://docs.netage.nl/respec_resources/styles/base.css", "removeOnSave")

\* core/utils createResourceHint: one link element per hint
createResourceHint(hint, href) == Elem("link", hint, href, "")

createResourceHints ==
  << createResourceHint("preconnect", "https://www.netage.nl"),
     createResourceHint("preload", "https://www.w3.org/scripts/TR/2016/fixup.js"),
     createResourceHint("preload", "https://www.w3.org/StyleSheets/TR/2016/base.css"),
     createResourceHint("preload", "https://cloudbox.netage.nl/f/53b55b7650994d1f8528/?dl=1") >>

createResourceHintsJs ==
  << createResourceHint("preload", "https://www.w3.org/scripts/TR/2016/fixup.js"),
     createResourceHint("preload", "https://docs.netage.nl/respec_resources/styles/base.css") >>

\* document.head.querySelector("meta[name=viewport]") finds something
HasViewport(h) == \E i \in DOMAIN h : IsViewport(h[i])

\* mutant of elements: the viewport meta is appended to the fragment, not prepended
elementsAppendMeta(h, hints, baseStyle) ==
  hints \o <<baseStyle>> \o (IF ~HasViewport(h) THEN <<createMetaViewport>> ELSE <<>>)

\* The fragment built at module load: the hints, then the base style, and the
\* viewport meta prepended when the head has none.
elements(h, hints, baseStyle) ==
  (IF ~HasViewport(h) THEN <<createMetaViewport>> ELSE <<>>) \o hints \o <<baseStyle>>

\* core/utils linkCSS(document, url): a stylesheet link appended to the head
linkCSS(h, url) == Append(h, Elem("link", "stylesheet", url, ""))

\* mutant of styleFile: NETAGE-LD falls through to the NETAGE-FINAL case
styleFileFallThrough(specStatus) ==
  LET up == toUpperCase(specStatus) IN
  CASE up = NETAGE_CV    -> "" \o "https://netage.github.io/respec_resources/styles/NETAGE-CV.css"
    [] up = NETAGE_LD    -> "" \o "https://netage.github.io/respec_resources/styles/NETAGE-FINAL.css"
    [] up = NETAGE_FINAL -> "" \o "https://netage.github.io/respec_resources/styles/NETAGE-FINAL.css"
    [] up = NETAGE_BASIC -> "" \o "https://netage.github.io/respec_resources/styles/NETAGE-BASIC.css"
    [] OTHER             -> "https://netage.github.io/respec_resources/styles/NETAGE-BASIC.css"

\* The switch of run(conf) in src/netage/style.js
styleFile(specStatus) ==
  LET up == toUpperCase(specStatus) IN
  CASE up = NETAGE_CV    -> "" \o "https://netage.github.io/respec_resources/styles/NETAGE-CV.css"
    [] up = NETAGE_LD    -> "" \o "https://netage.github.io/respec_resources/styles/NETAGE-LD.css"
    [] up = NETAGE_FINAL -> "" \o "https://netage.github.io/respec_resources/styles/NETAGE-FINAL.css"
    [] up = NETAGE_BASIC -> "" \o "https://netage.github.io/respec_resources/styles/NETAGE-BASIC.css"
    [] OTHER             -> "https://netage.github.io/respec_resources/styles/NETAGE-BASIC.css"

\* The switch of run(conf) in the older copy of the plugin
styleFileJs(specStatus) ==
  LET up == toUpperCase(specStatus) IN
  CASE up = NETAGE_CV    -> "" \o "https://docs.netage.nl/respec_resources/styles/NETAGE-CV.css"
    [] up = NETAGE_LD    -> "" \o "https://docs.netage.nl/respec_resources/styles/NETAGE-LD.css"
    [] up = NETAGE_FINAL -> "" \o "https://docs.netage.nl/respec_resources/styles/NETAGE-FINAL.css"
    [] up = NETAGE_BASIC -> "" \o "https://docs.netage.nl/respec_resources/styles/NETAGE-BASIC.css"
    [] OTHER             -> "https://docs.netage.nl/respec_resources/styles/NETAGE-BASIC.css"

\* Index of the first element exportDoc.querySelector(`head link[href="${linkURL}"]`)
\* matches, 0 for null
FindLink(h, linkURL) ==
  IF \E i \in DOMAIN h : h[i].tag = "link" /\ h[i].href = linkURL
  THEN CHOOSE i \in DOMAIN h :
         /\ h[i].tag = "link" /\ h[i].href = linkURL
         /\ \A j \in 1..(i - 1) : ~(h[j].tag = "link" /\ h[j].href = linkURL)
  ELSE 0

RemoveAt(s, i) == SubSeq(s, 1, i - 1) \o SubSeq(s, i + 1, Len(s))

\* The handler styleMover(linkURL) returns, applied to the exported head.
\* ParentNode.append(null) appends the text node "null".
styleMover(linkURL, h) ==
  LET w3cStyle == FindLink(h, linkURL) IN
  IF w3cStyle = 0
  THEN Append(h, Elem("#text", "", "null", ""))
  ELSE Append(RemoveAt(h, w3cStyle), h[w3cStyle])

\* attachFixupScript(doc, version): the script appended to the body; its load
\* listener is attached only when location.hash is not empty
attachFixupScript(b, hasHash) ==
  Append(b, Elem("script", IF hasHash THEN "onload" ELSE "",
                 "https://www.w3.org/scripts/TR/2016/fixup.js", ""))

\* core/pubsubhub pub(): the handlers subscribed to ev, in subscription order
Handlers(ev) == SelectSeq(subs, LAMBDA s : s.ev = ev)

\* after pub(ev): the once-subscriptions of ev are gone
AfterPub(ev) == SelectSeq(subs, LAMBDA s : ~(s.ev = ev /\ s.once))

RECURSIVE ApplyBeforeSave(_, _)
ApplyBeforeSave(hs, h) ==
  IF hs = <<>> THEN h
  ELSE ApplyBeforeSave(Tail(hs), styleMover(Head(hs).url, h))

----------------------------------------------------------------------------
(* The style plugin.                                                       *)

MaxHead == 2      \* elements in the head before the plugin's module loads
MaxAppends == 2   \* elements other plugins append to the head after run

RECURSIVE SeqsUpTo(_, _)
SeqsUpTo(S, n) ==
  IF n = 0 THEN {<<>>}
  ELSE LET shorter == SeqsUpTo(S, n - 1)
       IN shorter \cup {Append(q, x) : q \in shorter, x \in S}

InitialHeadElems ==
  { Elem("meta", "charset", "", ""), Elem("title", "", "", ""), createMetaViewport }

StyleConfs ==
  { Spread(a, b) :
      a \in {EmptyObject} \cup {Put(EmptyObject, "specStatus", x) : x \in StatusInputs},
      b \in {EmptyObject, Put(EmptyObject, "noToc", TRUE)} }

StyleIdle ==
  /\ variant = "src" /\ st = "idle" /\ head = <<>> /\ body = <<>>
  /\ published = <<>> /\ subs = <<>> /\ linked = <<>> /\ thrown = ""
  /\ appended = 0 /\ saved = FALSE /\ exportHead = <<>> /\ navigated = FALSE

InitStyle ==
  /\ component = "style"
  /\ variant \in {"src", "js"}
  /\ st = "unloaded"
  /\ head \in SeqsUpTo(InitialHeadElems, MaxHead)
  /\ body = <<>>
  /\ conf \in StyleConfs
  /\ userConf = conf
  /\ published = <<>> /\ subs = <<>> /\ linked = <<>> /\ thrown = ""
  /\ appended = 0 /\ saved = FALSE /\ exportHead = <<>> /\ navigated = FALSE

\* Module load of src/netage/style.js: document.head.prepend(elements)
style_load ==
  /\ component = "style" /\ variant = "src" /\ st = "unloaded"
  /\ head' = elements(head, createResourceHints, createBaseStyle) \o head
  /\ st' = "loaded"
  /\ UNCHANGED <<component, variant, body, conf, userConf, published, subs, linked,
                 thrown, appended, saved, exportHead, navigated>>
  /\ UNCHANGED <<infVars, defDone, profileVars, builderVars>>

\* Module load of the older copy
style_load_js ==
  /\ component = "style" /\ variant = "js" /\ st = "unloaded"
  /\ head' = elements(head, createResourceHintsJs, createBaseStyleJs) \o head
  /\ st' = "loaded"
  /\ UNCHANGED <<component, variant, body, conf, userConf, published, subs, linked,
                 thrown, appended, saved, exportHead, navigated>>
  /\ UNCHANGED <<infVars, defDone, profileVars, builderVars>>

\* The status run(conf) of src/netage/style.js substitutes for a missing one
FallbackStatus == NETAGE_BASIC

\* The status the older copy substitutes
FallbackStatusJs == base

\* run(conf) of src/netage/style.js
style_run ==
  /\ component = "style" /\ variant = "src" /\ st = "loaded"
  /\ LET missing == ~HasStatus(conf)
         conf1 == IF missing THEN Put(conf, "specStatus", FallbackStatus) ELSE conf
         file == styleFile(conf1["specStatus"])
     IN /\ conf' = conf1
        /\ published' = IF missing THEN Append(published, "warn") ELSE published
        /\ subs' = IF ~NoToc(conf1)
                   THEN Append(subs, [ev |-> "end-all", fn |-> "attachFixupScript",
                                      once |-> TRUE, url |-> ""])
                   ELSE subs
        /\ head' = linkCSS(head, file)
        /\ linked' = Append(linked, file)
  /\ thrown' = ""
  /\ st' = "ran"
  /\ UNCHANGED <<component, variant, body, userConf, appended, saved, exportHead, navigated>>
  /\ UNCHANGED <<infVars, defDone, profileVars, builderVars>>

\* run(conf) of the older copy: the argument moveStyle of its last statement is
\* bound nowhere, so evaluating it throws a ReferenceError before sub() is called
style_run_js ==
  /\ component = "style" /\ variant = "js" /\ st = "loaded"
  /\ LET missing == ~HasStatus(conf)
         conf1 == IF missing THEN Put(conf, "specStatus", FallbackStatusJs) ELSE conf
         file == styleFileJs(conf1["specStatus"])
     IN /\ conf' = conf1
        /\ published' = IF missing THEN Append(published, "warn") ELSE published
        /\ head' = linkCSS(head, file)
        /\ linked' = Append(linked, file)
  /\ thrown' = "ReferenceError"
  /\ st' = "ran"
  /\ UNCHANGED <<component, variant, body, userConf, subs, appended, saved, exportHead, navigated>>
  /\ UNCHANGED <<infVars, defDone, profileVars, builderVars>>

\* Another plugin appends an element to the head after the style plugin ran
other_append ==
  /\ component = "style" /\ st = "ran" /\ appended < MaxAppends
  /\ head' = Append(head, Elem("style", "", "", ""))
  /\ appended' = appended + 1
  /\ UNCHANGED <<component, variant, st, body, conf, userConf, published, subs, linked,
                 thrown, saved, exportHead, navigated>>
  /\ UNCHANGED <<infVars, defDone, profileVars, builderVars>>

\* The runner publishes "end-all": the once-handler of run(conf) attaches the
\* fixup script
end_all ==
  /\ component = "style" /\ st = "ran" /\ "end-all" \notin {published[i] : i \in DOMAIN published}
  /\ \E hasHash \in BOOLEAN :
       body' = IF Handlers("end-all") # <<>> THEN attachFixupScript(body, hasHash) ELSE body
  /\ subs' = AfterPub("end-all")
  /\ published' = Append(published, "end-all")
  /\ UNCHANGED <<component, variant, st, head, conf, userConf, linked, thrown, appended,
                 saved, exportHead, navigated>>
  /\ UNCHANGED <<infVars, defDone, profileVars, builderVars>>

\* The fixup script loads: its listener, if attached, re-navigates to the fragment
script_load ==
  /\ component = "style" /\ body # <<>> /\ ~navigated
  /\ body[1].key = "onload"
  /\ navigated' = TRUE
  /\ UNCHANGED <<component, variant, st, head, body, conf, userConf, published, subs,
                 linked, thrown, appended, saved, exportHead>>
  /\ UNCHANGED <<infVars, defDone, profileVars, builderVars>>

\* The export publishes "beforesave" with the exported document: its subscribers
\* run on that document's head
before_save ==
  /\ component = "style" /\ st = "ran"
  /\ exportHead' = ApplyBeforeSave(Handlers("beforesave"), head)
  /\ subs' = AfterPub("beforesave")
  /\ saved' = TRUE
  /\ published' = IF saved THEN published ELSE Append(published, "beforesave")
  /\ UNCHANGED <<component, variant, st, head, body, conf, userConf, linked, thrown,
                 appended, navigated>>
  /\ UNCHANGED <<infVars, defDone, profileVars, builderVars>>

----------------------------------------------------------------------------
(* The informative-section plugin.  The document is the sequence of its    *)
(* tags in document order: "open" and "close" of a section, a heading "h"  *)
(* with its level, a paragraph "p", and the annotation "a" the plugin      *)
(* inserts.  id names a node: its position in the document as loaded.      *)

MaxTokens == 6    \* tags in the document before the plugin runs

Tok(k, inf, lvl) == [k |-> k, inf |-> inf, lvl |-> lvl, id |-> 0]

TokenKinds ==
  { Tok("open", TRUE, 0), Tok("open", FALSE, 0), Tok("close", FALSE, 0),
    Tok("h", FALSE, 1), Tok("h", FALSE, 3), Tok("p", FALSE, 0) }

\* Nesting depth after the first n tags of d
RECURSIVE Depth(_, _)
Depth(d, n) ==
  IF n = 0 THEN 0
  ELSE Depth(d, n - 1) + (CASE d[n].k = "open" -> 1 [] d[n].k = "close" -> -1 [] OTHER -> 0)

WellFormed(d) ==
  /\ \A n \in DOMAIN d : Depth(d, n) >= 0
  /\ Depth(d, Len(d)) = 0

Documents ==
  { [i \in DOMAIN d |-> [d[i] EXCEPT !.id = i]] :
      d \in { x \in UNION { [1..n -> TokenKinds] : n \in 0..MaxTokens } : WellFormed(x) } }

\* The position of the tag closing the section opened at position s
CloseOf(d, s) ==
  CHOOSE c \in (s + 1)..Len(d) :
    /\ Depth(d, c) = Depth(d, s) - 1
    /\ \A j \in (s + 1)..(c - 1) : Depth(d, j) >= Depth(d, s)

\* document.querySelectorAll("section.informative"), as positions in document order
InformativeSections(d) == { s \in DOMAIN d : d[s].k = "open" /\ d[s].inf }

\* matches "h2, h3, h4, h5, h6"
IsHeading(t) == t.k = "h" /\ t.lvl \in 2..6

\* informative.querySelector("h2, h3, h4, h5, h6"): the id of the first
\* matching descendant in document order, 0 for null
querySelector(d, s) ==
  LET found == { j \in (s + 1)..(CloseOf(d, s) - 1) : IsHeading(d[j]) }
  IN IF found = {} THEN 0
     ELSE d[CHOOSE j \in found : \A x \in found : j <= x].id

\* The set S of positions as a sequence in increasing order
RECURSIVE Ascending(_)
Ascending(S) ==
  IF S = {} THEN <<>>
  ELSE LET m == CHOOSE x \in S : \A y \in S : x <= y
       IN <<m>> \o Ascending(S \ {m})

\* .map(informative => informative.querySelector(...)).filter(heading => heading)
Headings(d) ==
  LET secs == Ascending(InformativeSections(d))
  IN SelectSeq([i \in DOMAIN secs |-> querySelector(d, secs[i])], LAMBDA h : h # 0)

\* mutant of After: the annotation goes in front of the heading
AfterAsBefore(d, id) ==
  LET at == CHOOSE j \in DOMAIN d : d[j].id = id
  IN SubSeq(d, 1, at - 1) \o <<Tok("a", FALSE, 0)>> \o SubSeq(d, at, Len(d))

\* heading.after(fragment): the annotation goes right after the node named id
After(d, id) ==
  LET at == CHOOSE j \in DOMAIN d : d[j].id = id
  IN SubSeq(d, 1, at) \o <<Tok("a", FALSE, 0)>> \o SubSeq(d, at + 1, Len(d))

\* .forEach(heading => heading.after(...))
RECURSIVE ForEachAfter(_, _)
ForEachAfter(d, hs) ==
  IF hs = <<>> THEN d ELSE ForEachAfter(After(d, Head(hs)), Tail(hs))

InformativeIdle == doc = <<>> /\ infDone = FALSE

InitInformative ==
  /\ component = "informative"
  /\ doc \in Documents
  /\ infDone = FALSE

\* run() of src/netage/informative.js; the runner calls it once per document
informative_run ==
  /\ component = "informative" /\ ~infDone
  /\ doc' = ForEachAfter(doc, Headings(doc))
  /\ infDone' = TRUE
  /\ UNCHANGED <<component, confVars, styleVars, defDone, profileVars, builderVars>>

----------------------------------------------------------------------------
(* The defaults plugin.  A lint option is [off, rules]: off for the value  *)
(* false, otherwise the mapping from rule names to booleans.               *)

LintOff == [off |-> TRUE, rules |-> EmptyObject]

LintRules(m) == [off |-> FALSE, rules |-> m]

\* core/defaults coreDefaults
coreDefaults ==
  [ lint |-> LintRules([r \in {"no-http-props", "privsec-section"} |-> r = "no-http-props"]),
    pluralize |-> FALSE,
    highlightVars |-> TRUE ]

netageDefaults ==
  [ lint |-> LintRules([r \in {"privsec-section"} |-> TRUE]),
    pluralize |-> TRUE,
    doJsonLd |-> FALSE,
    license |-> "w3c-software-doc",
    logos |-> << [src |-> "https://docs.netage.nl/respec_resources/logo.png", alt |-> "Netage",
                  height |-> 160, width |-> 258, url |-> "https://www.netage.nl/"] >>,
    xref |-> TRUE,
    prependW3C |-> FALSE ]

\* core/dfn-map definitionMap, the object every run assigns
definitionMap == "definitionMap"

\* ...conf.lint: the own properties of a mapping; nothing for undefined
LintSpread(c) == IF Has(c, "lint") THEN c["lint"].rules ELSE EmptyObject

\* mutant of mergeLint: the user's lint mapping replaces the defaults' wholesale
mergeLintWholesale(c) ==
  IF Has(c, "lint") /\ c["lint"].off
  THEN LintOff
  ELSE IF Has(c, "lint") THEN c["lint"]
       ELSE LintRules(Spread(coreDefaults.lint.rules, netageDefaults.lint.rules))

\* const lint = conf.lint === false ? false : {...}
mergeLint(c) ==
  IF Has(c, "lint") /\ c["lint"].off
  THEN LintOff
  ELSE LintRules(Spread(Spread(coreDefaults.lint.rules, netageDefaults.lint.rules),
                        LintSpread(c)))

\* mutant of mergedConf: the defaults are spread after conf and override it
mergedConfDefaultsLast(c) ==
  Put(Spread(Spread(c, coreDefaults), netageDefaults), "lint", mergeLint(c))

\* { ...coreDefaults, ...netageDefaults, ...conf, lint }
mergedConf(c) ==
  Put(Spread(Spread(coreDefaults, netageDefaults), c), "lint", mergeLint(c))

UserLints ==
  { LintOff,
    LintRules(EmptyObject),
    LintRules([r \in {"privsec-section"} |-> FALSE]),
    LintRules([r \in {"no-http-props", "check-punctuation"} |-> r = "check-punctuation"]) }

\* What the user may write for each option; EmptyObject leaves the option out
UserOptions ==
  << {EmptyObject} \cup {Put(EmptyObject, "specStatus", x) : x \in {unofficial, NETAGE_CV, <<>>}},
     {EmptyObject} \cup {Put(EmptyObject, "lint", x) : x \in UserLints},
     {EmptyObject, Put(EmptyObject, "pluralize", FALSE)},
     {EmptyObject, Put(EmptyObject, "license", "cc0")},
     {EmptyObject, Put(EmptyObject, "xref", FALSE)},
     {EmptyObject, Put(EmptyObject, "editors", "A. Editor")},
     {EmptyObject, Put(EmptyObject, "definitionMap", "userMap")} >>

RECURSIVE UserConfs(_)
UserConfs(n) ==
  IF n = 0 THEN {EmptyObject}
  ELSE { Spread(c, o) : c \in UserConfs(n - 1), o \in UserOptions[n] }

InitDefaults ==
  /\ component = "defaults"
  /\ conf \in UserConfs(Len(UserOptions))
  /\ userConf = conf
  /\ defDone = FALSE

\* run(conf) of netage/defaults
defaults_run ==
  /\ component = "defaults" /\ ~defDone
  /\ conf' = IF Has(conf, "specStatus") /\ conf["specStatus"] = unofficial
             THEN conf
             ELSE Put(Spread(conf, mergedConf(conf)), "definitionMap", definitionMap)
  /\ defDone' = TRUE
  /\ UNCHANGED userConf
  /\ UNCHANGED <<component, styleVars, infVars, profileVars, builderVars>>

DefaultsIdle == defDone = FALSE

ConfIdle == conf = EmptyObject /\ userConf = EmptyObject

----------------------------------------------------------------------------
(* The profile entry script.  runner.runAll and document.respecIsReady     *)
(* belong to core/base-runner: runAll runs the plugins in their listed     *)
(* order and rejects with the error of a plugin that throws.               *)

MaxPlugins == 2   \* plugins handed to runner.runAll

\* mutant of domReady: never waits for DOMContentLoaded
domReadyNoWait(state) == FALSE

\* domReady(): whether it has to wait for DOMContentLoaded
domReady(state) == state = "loading"

InitProfile ==
  /\ component = "profile"
  /\ readyState \in {"loading", "interactive", "complete"}
  /\ ppc = "start" /\ shown = FALSE
  /\ runAllState = "idle" /\ nextPlugin = 1 /\ respecIsReady = "pending"
  /\ logged = 0 /\ enabled = 0

ProfileIdle ==
  /\ readyState = "complete" /\ ppc = "idle" /\ shown = FALSE
  /\ runAllState = "idle" /\ nextPlugin = 1 /\ respecIsReady = "pending"
  /\ logged = 0 /\ enabled = 0

\* The define callback: ui.show(), then domReady() is called
profile_define ==
  /\ component = "profile" /\ ppc = "start"
  /\ shown' = TRUE
  /\ ppc' = IF domReady(readyState) THEN "awaitDom" ELSE "domReady"
  /\ UNCHANGED <<readyState, runAllState, nextPlugin, respecIsReady, logged, enabled>>
  /\ UNCHANGED <<component, confVars, styleVars, infVars, defDone, builderVars>>

\* The browser fires DOMContentLoaded: the listener resolves domReady's promise
dom_content_loaded ==
  /\ component = "profile" /\ readyState = "loading"
  /\ readyState' = "interactive"
  /\ ppc' = IF ppc = "awaitDom" THEN "domReady" ELSE ppc
  /\ UNCHANGED <<shown, runAllState, nextPlugin, respecIsReady, logged, enabled>>
  /\ UNCHANGED <<component, confVars, styleVars, infVars, defDone, builderVars>>

\* The browser finishes loading the page
window_load ==
  /\ component = "profile" /\ readyState = "interactive"
  /\ readyState' = "complete"
  /\ UNCHANGED <<ppc, shown, runAllState, nextPlugin, respecIsReady, logged, enabled>>
  /\ UNCHANGED <<component, confVars, styleVars, infVars, defDone, builderVars>>

\* domReady().then(...): the callback enters the try block and calls runAll
profile_then ==
  /\ component = "profile" /\ ppc = "domReady"
  /\ runAllState' = "running"
  /\ ppc' = "awaitRunAll"
  /\ UNCHANGED <<readyState, shown, nextPlugin, respecIsReady, logged, enabled>>
  /\ UNCHANGED <<component, confVars, styleVars, infVars, defDone, builderVars>>

\* runAll runs the next plugin, which returns or throws
plugin_run ==
  /\ component = "profile" /\ runAllState = "running"
  /\ \E ok \in BOOLEAN :
       IF ok
       THEN /\ nextPlugin' = nextPlugin + 1
            /\ runAllState' = IF nextPlugin = MaxPlugins THEN "resolved" ELSE "running"
       ELSE /\ nextPlugin' = nextPlugin
            /\ runAllState' = "rejected"
  /\ UNCHANGED <<readyState, ppc, shown, respecIsReady, logged, enabled>>
  /\ UNCHANGED <<component, confVars, styleVars, infVars, defDone, builderVars>>

\* document.respecIsReady settles once runAll is through
respec_ready ==
  /\ component = "profile" /\ runAllState = "resolved" /\ respecIsReady = "pending"
  /\ respecIsReady' \in {"resolved", "rejected"}
  /\ UNCHANGED <<readyState, ppc, shown, runAllState, nextPlugin, logged, enabled>>
  /\ UNCHANGED <<component, confVars, styleVars, infVars, defDone, builderVars>>

\* await runner.runAll(plugins)
profile_await_runAll ==
  /\ component = "profile" /\ ppc = "awaitRunAll"
  /\ runAllState \in {"resolved", "rejected"}
  /\ ppc' = IF runAllState = "resolved" THEN "awaitReady" ELSE "catch"
  /\ UNCHANGED <<readyState, shown, runAllState, nextPlugin, respecIsReady, logged, enabled>>
  /\ UNCHANGED <<component, confVars, styleVars, infVars, defDone, builderVars>>

\* await document.respecIsReady
profile_await_ready ==
  /\ component = "profile" /\ ppc = "awaitReady"
  /\ respecIsReady \in {"resolved", "rejected"}
  /\ ppc' = IF respecIsReady = "resolved" THEN "finally" ELSE "catch"
  /\ UNCHANGED <<readyState, shown, runAllState, nextPlugin, respecIsReady, logged, enabled>>
  /\ UNCHANGED <<component, confVars, styleVars, infVars, defDone, builderVars>>

\* catch (err) { console.error(err); }
profile_catch ==
  /\ component = "profile" /\ ppc = "catch"
  /\ logged' = logged + 1
  /\ ppc' = "finally"
  /\ UNCHANGED <<readyState, shown, runAllState, nextPlugin, respecIsReady, enabled>>
  /\ UNCHANGED <<component, confVars, styleVars, infVars, defDone, builderVars>>

\* finally { ui.enable(); }
profile_finally ==
  /\ component = "profile" /\ ppc = "finally"
  /\ enabled' = enabled + 1
  /\ ppc' = "done"
  /\ UNCHANGED <<readyState, shown, runAllState, nextPlugin, respecIsReady, logged>>
  /\ UNCHANGED <<component, confVars, styleVars, infVars, defDone, builderVars>>

----------------------------------------------------------------------------
(* The build CLI.                                                          *)

\* What commandLineArgs(optionList) yields: it throws, or the parsed options.
\* profile "" stands for a profile that was not given.
ParsedArgs ==
  [ error : {FALSE}, help : BOOLEAN, profile : {"", "netage", "nosuch"}, debug : BOOLEAN ]
  \cup [ error : {TRUE}, help : {FALSE}, profile : {""}, debug : {FALSE} ]

\* The steps of Builder.build that can fail, in order
BuildSteps ==
  << "getRespecVersion", "resolveEntry", "resolveShortcut", "webpack", "hasErrors",
     "readFiles", "writeFiles", "copyFile" >>

StepAfter(step) ==
  LET i == CHOOSE j \in DOMAIN BuildSteps : BuildSteps[j] = step
  IN IF i = Len(BuildSteps) THEN "built" ELSE BuildSteps[i + 1]

InitBuilder ==
  /\ component = "builder"
  /\ bpc = "start"
  /\ parsedArgs = [error |-> FALSE, help |-> FALSE, profile |-> "", debug |-> FALSE]
  /\ exited = FALSE /\ exitCode = 0
  /\ reported = FALSE /\ usageShown = FALSE
  /\ bannerWritten = FALSE /\ workerCopied = FALSE /\ failedAt = ""

BuilderIdle ==
  /\ bpc = "idle"
  /\ parsedArgs = [error |-> FALSE, help |-> FALSE, profile |-> "", debug |-> FALSE]
  /\ exited = FALSE /\ exitCode = 0
  /\ reported = FALSE /\ usageShown = FALSE
  /\ bannerWritten = FALSE /\ workerCopied = FALSE /\ failedAt = ""

\* parsedArgs = commandLineArgs(optionList), and the catch around it
builder_parse ==
  /\ component = "builder" /\ bpc = "start"
  /\ \E a \in ParsedArgs :
       /\ parsedArgs' = a
       /\ IF a.error
          THEN /\ usageShown' = TRUE /\ reported' = TRUE
               /\ exited' = TRUE /\ exitCode' = 127
               /\ bpc' = "exited"
          ELSE /\ bpc' = "parsed"
               /\ UNCHANGED <<usageShown, reported, exited, exitCode>>
  /\ UNCHANGED <<bannerWritten, workerCopied, failedAt>>
  /\ UNCHANGED <<component, confVars, styleVars, infVars, defDone, profileVars>>

\* if (parsedArgs.help) ...; if (!name) return; then Builder.build is entered,
\* whose own name check throws a TypeError
builder_dispatch ==
  /\ component = "builder" /\ bpc = "parsed"
  /\ IF parsedArgs.help
     THEN /\ usageShown' = TRUE
          /\ exited' = TRUE /\ exitCode' = 0
          /\ bpc' = "exited"
          /\ UNCHANGED failedAt
     ELSE IF parsedArgs.profile = ""
     THEN \* run() returns without calling process.exit: node ends with code 0
          /\ exited' = TRUE /\ exitCode' = 0
          /\ bpc' = "returned"
          /\ UNCHANGED <<usageShown, failedAt>>
     ELSE /\ bpc' = IF parsedArgs.profile = "" THEN "catch" ELSE BuildSteps[1]
          /\ failedAt' = IF parsedArgs.profile = "" THEN "name" ELSE failedAt
          /\ UNCHANGED <<usageShown, exited, exitCode>>
  /\ UNCHANGED <<parsedArgs, reported, bannerWritten, workerCopied>>
  /\ UNCHANGED <<component, confVars, styleVars, infVars, defDone, profileVars>>

\* Whether a step of Builder.build can succeed and can fail for these arguments:
\* the entry module resolves exactly when the profile exists
Outcomes(step, args) ==
  IF step = "resolveEntry" THEN {args.profile = "netage"} ELSE BOOLEAN

\* One awaited or throwing step of Builder.build.  The two writes of
\* appendBoilerplate run side by side: either may fail while the other is done.
builder_step ==
  /\ component = "builder"
  /\ \E i \in DOMAIN BuildSteps : bpc = BuildSteps[i]
  /\ \E ok \in Outcomes(bpc, parsedArgs), jsWritten \in BOOLEAN :
       /\ (bpc = "writeFiles" /\ ok) => jsWritten
       /\ bpc # "writeFiles" => jsWritten = bannerWritten
       /\ bannerWritten' = jsWritten
       /\ workerCopied' = (bpc = "copyFile" /\ ok)
       /\ bpc' = IF ok THEN StepAfter(bpc) ELSE "catch"
       /\ failedAt' = IF ok THEN failedAt ELSE bpc
  /\ UNCHANGED <<parsedArgs, exited, exitCode, reported, usageShown>>
  /\ UNCHANGED <<component, confVars, styleVars, infVars, defDone, profileVars>>

\* mutant of builder_catch: the error is reported but the process exits 0
builder_catch_exit0 ==
  /\ component = "builder" /\ bpc = "catch"
  /\ reported' = TRUE
  /\ exited' = TRUE /\ exitCode' = 0
  /\ bpc' = "exited"
  /\ UNCHANGED <<parsedArgs, usageShown, bannerWritten, workerCopied, failedAt>>
  /\ UNCHANGED <<component, confVars, styleVars, infVars, defDone, profileVars>>

\* catch (err) { console.error(colors.error(err.stack)); return process.exit(1); }
builder_catch ==
  /\ component = "builder" /\ bpc = "catch"
  /\ reported' = TRUE
  /\ exited' = TRUE /\ exitCode' = 1
  /\ bpc' = "exited"
  /\ UNCHANGED <<parsedArgs, usageShown, bannerWritten, workerCopied, failedAt>>
  /\ UNCHANGED <<component, confVars, styleVars, infVars, defDone, profileVars>>

\* process.exit(0) after Builder.build resolved
builder_done ==
  /\ component = "builder" /\ bpc = "built"
  /\ exited' = TRUE /\ exitCode' = 0
  /\ bpc' = "exited"
  /\ UNCHANGED <<parsedArgs, reported, usageShown, bannerWritten, workerCopied, failedAt>>
  /\ UNCHANGED <<component, confVars, styleVars, infVars, defDone, profileVars>>

----------------------------------------------------------------------------
(* The whole model.                                                        *)

Init ==
  \/ InitStyle /\ InformativeIdle /\ DefaultsIdle /\ ProfileIdle /\ BuilderIdle
  \/ InitInformative /\ ConfIdle /\ StyleIdle /\ DefaultsIdle /\ ProfileIdle /\ BuilderIdle
  \/ InitDefaults /\ StyleIdle /\ InformativeIdle /\ ProfileIdle /\ BuilderIdle
  \/ InitProfile /\ ConfIdle /\ StyleIdle /\ InformativeIdle /\ DefaultsIdle /\ BuilderIdle
  \/ InitBuilder /\ ConfIdle /\ StyleIdle /\ InformativeIdle /\ DefaultsIdle /\ ProfileIdle

Next ==
  \/ style_load \/ style_load_js \/ style_run \/ style_run_js
  \/ other_append \/ end_all \/ script_load \/ before_save
  \/ informative_run
  \/ defaults_run
  \/ profile_define \/ dom_content_loaded \/ window_load \/ profile_then
  \/ plugin_run \/ respec_ready \/ profile_await_runAll \/ profile_await_ready
  \/ profile_catch \/ profile_finally
  \/ builder_parse \/ builder_dispatch \/ builder_step \/ builder_catch \/ builder_done

Spec == Init /\ [][Next]_vars

----------------------------------------------------------------------------
(* The claims about the style plugin.                                      *)

WarnCount == Len(SelectSeq(published, LAMBDA e : e = "warn"))

ViewportCount(h) == Cardinality({ i \in DOMAIN h : IsViewport(h[i]) })

\* C1: once "beforesave" has been published and its subscribers have run, the
\* stylesheet link that run(conf) linked is the last child of the exported head,
\* whatever was appended to the head after run.
C1_StyleLastAtExport ==
  (component = "style" /\ saved) =>
    /\ linked # <<>>
    /\ exportHead # <<>>
    /\ exportHead[Len(exportHead)] = Elem("link", "stylesheet", linked[1], "")

\* C2: after run(conf), a configuration that had no (or a falsy) specStatus has
\* specStatus "NETAGE-BASIC" and exactly one "warn" was published; a configuration
\* that had one keeps it and no "warn" was published.
C2_FallbackAndWarn ==
  (component = "style" /\ st = "ran") =>
    IF ~HasStatus(userConf)
    THEN conf["specStatus"] = NETAGE_BASIC /\ WarnCount = 1
    ELSE conf["specStatus"] = userConf["specStatus"] /\ WarnCount = 0

\* s is code (written in capitals) in some letter case
SameIgnoringCase(s, code) ==
  /\ Len(s) = Len(code)
  /\ \A i \in DOMAIN code : s[i] \in {code[i], LowerOf(code[i])}

RecognizedStatuses ==
  { [code |-> NETAGE_BASIC, file |-> "NETAGE-BASIC.css"],
    [code |-> NETAGE_CV,    file |-> "NETAGE-CV.css"],
    [code |-> NETAGE_LD,    file |-> "NETAGE-LD.css"],
    [code |-> NETAGE_FINAL, file |-> "NETAGE-FINAL.css"] }

\* The literal URL of a stylesheet in each copy of the plugin
StylesheetURL(v, file) ==
  (IF v = "src" THEN "https://netage.github.io" ELSE "https://docs.netage.nl")
    \o "/respec_resources/styles/" \o file

\* C3: run(conf) passes exactly one URL to linkCSS: for a recognized status code
\* in any letter case the URL mapped to that code, for every other status (an
\* absent one included) the NETAGE-BASIC URL.
C3_OneUrlPerStatus ==
  component = "style" =>
    IF st # "ran" THEN linked = <<>>
    ELSE LET status == IF HasStatus(userConf) THEN userConf["specStatus"] ELSE <<>>
             hits == { r \in RecognizedStatuses : SameIgnoringCase(status, r.code) }
         IN /\ Len(linked) = 1
            /\ \A r \in hits : linked[1] = StylesheetURL(variant, r.file)
            /\ hits = {} => linked[1] = StylesheetURL(variant, "NETAGE-BASIC.css")

C3_Witness ==
  /\ component = "style" /\ st = "ran" /\ variant = "src"
  /\ HasStatus(userConf)
  /\ userConf["specStatus"] = <<"N","e","T","a","G","e","-","l","D">>
  /\ linked = <<"https://netage.github.io/respec_resources/styles/NETAGE-LD.css">>

\* C7: the module's load leaves the head as it was behind what it inserts; if
\* the head had no viewport meta, it then has exactly one, as its first child,
\* ahead of the resource hints and the base stylesheet link; if it had one, the
\* load adds none.
C7_ViewportFirst ==
  [][ (component = "style" /\ st = "unloaded" /\ st' = "loaded") =>
        LET n == Len(head') - Len(head) IN
        /\ SubSeq(head', n + 1, Len(head')) = head
        /\ IF HasViewport(head)
           THEN ViewportCount(head') = ViewportCount(head)
           ELSE /\ ViewportCount(head') = 1
                /\ IsViewport(head'[1])
                /\ n >= 3
                /\ \A i \in 2..(n - 1) :
                     head'[i].tag = "link" /\ head'[i].key \in {"preconnect", "preload"}
                /\ head'[n].tag = "link" /\ head'[n].key = "stylesheet"
                /\ head'[n].cls = "removeOnSave" ]_vars

C7_Witness ==
  /\ component = "style" /\ st = "loaded"
  /\ IsViewport(head[1]) /\ ViewportCount(head) = 1
  /\ head[Len(head)].tag = "title"

\* C9: no operation of the style plugin throws.
C9_NoThrow == component = "style" => thrown = ""

----------------------------------------------------------------------------
(* The claim about the informative plugin.                                 *)

\* The position of the first h2-h6 that is a child of the section opened at s,
\* 0 if it has none
OwnHeading(d, s) ==
  LET own == { j \in (s + 1)..(CloseOf(d, s) - 1) :
                 IsHeading(d[j]) /\ Depth(d, j) = Depth(d, s) }
  IN IF own = {} THEN 0 ELSE CHOOSE j \in own : \A x \in own : j <= x

Annotations(d) == { j \in DOMAIN d : d[j].k = "a" }

\* C4 as stated: when each of the N informative sections has a heading of level
\* 2 to 6, run() inserts exactly N annotations, one right after the heading of
\* each section, nested sections included; an informative section with no h2-h6
\* descendant gets no annotation.
C4_OneAnnotationPerOwnHeading ==
  (component = "informative" /\ infDone) =>
    LET secs == InformativeSections(doc) IN
    /\ (\A s \in secs : OwnHeading(doc, s) # 0) =>
         /\ Cardinality(Annotations(doc)) = Cardinality(secs)
         /\ \A s \in secs : doc[OwnHeading(doc, s) + 1].k = "a"
    /\ \A s \in secs :
         (\A j \in (s + 1)..(CloseOf(doc, s) - 1) : ~IsHeading(doc[j])) =>
           (\A j \in (s + 1)..(CloseOf(doc, s) - 1) : doc[j].k # "a")

\* The position of the first h2-h6 inside the section opened at s, at any depth,
\* 0 if there is none
FirstHeading(d, s) ==
  LET inside == { j \in (s + 1)..(CloseOf(d, s) - 1) : IsHeading(d[j]) }
  IN IF inside = {} THEN 0 ELSE CHOOSE j \in inside : \A x \in inside : j <= x

\* C4 as amended: run() inserts one annotation for each informative section
\* that has an h2-h6 descendant and nothing else, and leaves the rest of the
\* document in place; the first h2-h6 descendant of such a section, in document
\* order, is followed at once by as many annotations as there are informative
\* sections it is the first heading of; the section's own heading is so followed
\* whenever it is that first descendant; an informative section with no h2-h6
\* descendant gets no annotation.
C4_OneAnnotationPerFirstHeading ==
  (component = "informative" /\ infDone) =>
    LET secs == InformativeSections(doc)
        withHeading == { s \in secs : FirstHeading(doc, s) # 0 }
        loaded == SelectSeq(doc, LAMBDA t : t.k # "a")
    IN /\ Cardinality(Annotations(doc)) = Cardinality(withHeading)
       /\ \A i \in DOMAIN loaded : loaded[i].id = i
       /\ \A s \in withHeading :
            LET h == FirstHeading(doc, s)
                sharing == { t \in withHeading : FirstHeading(doc, t) = h }
            IN \A i \in 1..Cardinality(sharing) : doc[h + i].k = "a"
       /\ \A s \in secs :
            (OwnHeading(doc, s) # 0 /\ OwnHeading(doc, s) = FirstHeading(doc, s)) =>
              doc[OwnHeading(doc, s) + 1].k = "a"
       /\ \A s \in secs \ withHeading :
            \A j \in (s + 1)..(CloseOf(doc, s) - 1) : doc[j].k # "a"

C4_Witness ==
  /\ component = "informative" /\ infDone /\ Len(doc) = 8
  /\ doc[1].k = "open" /\ doc[1].inf /\ doc[2].k = "h" /\ doc[3].k = "a"
  /\ doc[4].k = "open" /\ doc[4].inf /\ doc[5].k = "h" /\ doc[6].k = "a"

----------------------------------------------------------------------------
(* The claims about the defaults plugin.                                   *)

Unofficial(c) == Has(c, "specStatus") /\ c["specStatus"] = unofficial

UserLintOff == Has(userConf, "lint") /\ userConf["lint"].off

UserRules == IF Has(userConf, "lint") THEN userConf["lint"].rules ELSE EmptyObject

\* The value the claim gives a lint rule: the user's, else the profile's, else core's
ExpectedRule(r) ==
  IF r \in DOMAIN UserRules THEN UserRules[r]
  ELSE IF r \in DOMAIN netageDefaults.lint.rules THEN netageDefaults.lint.rules[r]
  ELSE coreDefaults.lint.rules[r]

AllRules ==
  DOMAIN coreDefaults.lint.rules \cup DOMAIN netageDefaults.lint.rules \cup DOMAIN UserRules

LintMerged ==
  /\ Has(conf, "lint")
  /\ IF UserLintOff
     THEN conf["lint"].off
     ELSE /\ ~conf["lint"].off
          /\ DOMAIN conf["lint"].rules = AllRules
          /\ \A r \in AllRules : conf["lint"].rules[r] = ExpectedRule(r)

\* C5 as stated: after run(conf), conf.lint holds for every rule the user's
\* value, else the profile default, else the core default; and it is false when
\* the user set it to false.
C5_LintMergedAlways == (component = "defaults" /\ defDone) => LintMerged

\* C5 as amended: the same, unless specStatus is "unofficial", when run(conf)
\* leaves the configuration as the user wrote it.
C5_LintMergedUnlessUnofficial ==
  (component = "defaults" /\ defDone) =>
    IF Unofficial(userConf) THEN conf = userConf ELSE LintMerged

C5_Witness ==
  /\ component = "defaults" /\ defDone /\ ~Unofficial(userConf)
  /\ DOMAIN UserRules = {"no-http-props", "check-punctuation"}
  /\ conf["lint"].rules =
       [r \in {"no-http-props", "privsec-section", "check-punctuation"} |->
          r # "no-http-props"]

RecognizedKeys == DOMAIN coreDefaults \cup DOMAIN netageDefaults

DefaultOf(k) == IF k \in DOMAIN netageDefaults THEN netageDefaults[k] ELSE coreDefaults[k]

UserOrDefault(k) == IF Has(userConf, k) THEN userConf[k] ELSE DefaultOf(k)

\* C6 as stated: after run(conf), whatever specStatus is, every recognized key
\* has the user's value if there is one and the default otherwise, and every
\* other key has the value the user gave it.
C6_CompleteAlways ==
  (component = "defaults" /\ defDone) =>
    /\ \A k \in RecognizedKeys : Has(conf, k) /\ conf[k] = UserOrDefault(k)
    /\ \A k \in DOMAIN userConf \ RecognizedKeys : Has(conf, k) /\ conf[k] = userConf[k]

\* C6 as amended: when specStatus is "unofficial" the configuration stays as
\* the user wrote it.  Otherwise every recognized key but lint has the user's
\* value if there is one and the default otherwise; lint is false if the user
\* set it to false and otherwise a mapping that holds every rule the user set,
\* with the user's value; definitionMap is the module's definition map; every
\* other key has the value the user gave it; and conf has no further keys.
C6_CompleteUnlessUnofficial ==
  (component = "defaults" /\ defDone) =>
    IF Unofficial(userConf) THEN conf = userConf
    ELSE /\ DOMAIN conf = DOMAIN userConf \cup RecognizedKeys \cup {"definitionMap"}
         /\ \A k \in RecognizedKeys \ {"lint"} : conf[k] = UserOrDefault(k)
         /\ conf["lint"].off = UserLintOff
         /\ ~UserLintOff =>
              \A r \in DOMAIN UserRules :
                r \in DOMAIN conf["lint"].rules /\ conf["lint"].rules[r] = UserRules[r]
         /\ conf["definitionMap"] = definitionMap
         /\ \A k \in DOMAIN userConf \ (RecognizedKeys \cup {"definitionMap"}) :
              conf[k] = userConf[k]

C6_Witness ==
  /\ component = "defaults" /\ defDone /\ ~Unofficial(userConf)
  /\ Has(userConf, "license") /\ Has(userConf, "editors") /\ ~Has(userConf, "xref")
  /\ conf["license"] = "cc0" /\ conf["editors"] = "A. Editor" /\ conf["xref"] = TRUE
  /\ conf["highlightVars"] = TRUE

----------------------------------------------------------------------------
(* The claim about the profile entry script.                               *)

RunAllSettled == runAllState \in {"resolved", "rejected"}

ProfileErrored == runAllState = "rejected" \/ respecIsReady = "rejected"

\* C8: plugins run only once the DOM is ready; ui.enable() is never called
\* before runAll has settled nor more than once; when the script is through,
\* ui.enable() was called exactly once and the error, if there was one, was
\* logged once; and once runAll has settled the script is never stuck before
\* that, except while document.respecIsReady is pending.
C8_EnableOnceAfterRunAll ==
  component = "profile" =>
    /\ runAllState # "idle" => readyState # "loading"
    /\ enabled <= 1
    /\ enabled = 1 => RunAllSettled
    /\ ppc = "done" =>
         /\ enabled = 1
         /\ logged = (IF ProfileErrored THEN 1 ELSE 0)
    /\ (RunAllSettled /\ ppc # "done" /\ ~(ppc = "awaitReady" /\ respecIsReady = "pending")) =>
         ENABLED (profile_await_runAll \/ profile_await_ready \/ profile_catch \/ profile_finally)

C8_Witness ==
  /\ component = "profile" /\ ppc = "done"
  /\ runAllState = "rejected" /\ nextPlugin = MaxPlugins
  /\ logged = 1 /\ enabled = 1

----------------------------------------------------------------------------
(* The claim about the build CLI.                                          *)

BuildFailed == failedAt # ""

BuildCompleted == bpc = "exited" /\ bannerWritten /\ workerCopied /\ ~BuildFailed

ExitCodeByOutcome ==
  /\ parsedArgs.error <=> exitCode = 127
  /\ BuildFailed <=> exitCode = 1
  /\ BuildFailed => reported

\* C10 as stated: a run ends with 127 exactly when parsing failed, with 1
\* exactly when Builder.build failed, the error reported, and with 0 only when
\* --help was given or the build completed with banner and worker script.
C10_ExitCodeAsStated ==
  (component = "builder" /\ exited) =>
    /\ ExitCodeByOutcome
    /\ exitCode = 0 => (parsedArgs.help \/ BuildCompleted)

\* C10 as amended: exit code 0 also ends a run that was given no profile name
\* (and no --help), which builds nothing; and a run that has not ended can
\* always take its next step.
C10_ExitCode ==
  component = "builder" =>
    IF exited
    THEN /\ ExitCodeByOutcome
         /\ exitCode \in {0, 1, 127}
         /\ exitCode = 0 => (parsedArgs.help \/ parsedArgs.profile = "" \/ BuildCompleted)
    ELSE ENABLED (builder_parse \/ builder_dispatch \/ builder_step
                    \/ builder_catch \/ builder_done)

C10_Witness ==
  /\ component = "builder" /\ exited /\ exitCode = 1
  /\ failedAt = "hasErrors" /\ reported /\ ~bannerWritten
====
